---- MODULE Spec2Model ----
(***************************************************************************)
(* Model of the content service's bulk staging upload                      *)
(* (src/src/routes/staging_content/bulk.js), the search index rotation     *)
(* (RemoteStorage.setup / createNewIndex / makeIndexActive) and the marker *)
(* based listing (RemoteStorage.listContent) of src/src/storage/remote.js. *)
(*                                                                         *)
(* Three specifications share the module:                                  *)
(*   Spec      - one bulk upload request                                   *)
(*   SpecSetup - concurrent RemoteStorage.setup invocations                *)
(*   SpecList  - one RemoteStorage.listContent enumeration                 *)
(***************************************************************************)
EXTENDS Integers, Sequences, FiniteSets, TLC

VARIABLES
  \* ---- bulk upload request (bulk.js handler closure) ----
  nEntries,         \* history: number of archive entries the decoder has emitted
  nRecords,         \* history: number of record entries among them
  nMalformed,       \* history: number of record entries whose body did not parse
  batchNames,       \* history: file names (extension stripped) of the record entries
  keepListed,       \* history: IDs listed in the valid keep.json entries
  decode,           \* "reading" | "finished" | "error"
  contentIDBase,    \* bulk.js:17
  envelopeCount,    \* bulk.js:18
  failureCount,     \* bulk.js:19
  deletionCount,    \* bulk.js:20
  toKeep,           \* bulk.js:21
  tasks,            \* async.queue: waiting tasks (FIFO)
  workers,          \* async.queue: running tasks with the state of their two writes
  late,             \* writes still in flight of tasks whose outcome was already reported
  processScheduled, \* a setImmediate(q.process) is pending
  drainArmed,       \* uploadQueue.drain = finishRequest has been assigned
  rec,              \* reconciliation: "idle" | "listing" | "threw" | "done"
  toDelete,         \* bulk.js:129
  sent,             \* responses sent with res.send, in order
  nextCalls,        \* invocations of the request continuation, in order
  stored,           \* document store: contentIDs present
  indexed,          \* search index: contentIDs present
  finished,         \* history: tasks whose outcome was reported, with that outcome
  \* ---- search engine and RemoteStorage.setup invocations ----
  latch,            \* the index named 'latch' exists
  indices,          \* index generations envelopes_<t>, each named by its t
  alias,            \* the generations that hold the alias envelopes_current
  clock,            \* Date.now()
  spc,              \* position of each setup invocation
  indexName,        \* remote.js:38, per invocation (0: none)
  toGC,             \* indices.delete requests in flight, per invocation
  cbs,              \* what each invocation passed to its callback, in order
  got400,           \* history: invocations whose latch creation answered 400
  faulty,           \* history: invocations that met a backend error
  creators,         \* history: invocations that created an index generation
  promoters,        \* history: invocations whose alias update was applied
  aliasBefore,      \* history: the generations that held the alias at the start
  removed,          \* history: generations removed by an indices.delete
  failedAt,         \* history: the step at which each invocation met its first error
  \* ---- RemoteStorage.listContent ----
  container,        \* contentIDs stored in the content container
  lpc,              \* "fetching" | "delivered" | "done" | "failed"
  marker,           \* options.marker of the getFiles request
  page,             \* fileNames of the page handed to the consumer
  delivered,        \* history: every name handed to the consumer, in order
  fetches,          \* history: number of getFiles requests answered
  completions,      \* history: number of callbacks with an empty result
  \* ---- RemoteStorage.deleteContent / unindexContent ----
  docs,             \* contentIDs of the documents in the index envelopes_current
  delLog,           \* history: the delete calls made, with error and callback argument
  \* ---- removeStagingEnvelopes ----
  rmIDs,            \* remove.js:48, the argument contentIDs
  rmPc,             \* "start" | "tick" | "pending" | "done"
  rmOps,            \* history: the storage operations issued
  rmPending,        \* the stores whose operation has not called back
  rmCb,             \* what was passed to the callback, in order
  \* ---- two uploads of one archive in sequence ----
  run,              \* 0: a single upload of any archive; 1, 2: first, second upload
  archive,          \* the entries of the archive that is uploaded twice
  firstSent         \* the responses of the first upload

bulkVars == <<nEntries, nRecords, nMalformed, batchNames, keepListed, decode,
              contentIDBase, envelopeCount, failureCount,
              deletionCount, toKeep, tasks, workers, late, processScheduled,
              drainArmed, rec, toDelete, sent, nextCalls, stored, indexed,
              finished>>

setupVars == <<latch, indices, alias, clock, spc, indexName, toGC, cbs, got400,
               faulty, creators, promoters, aliasBefore, removed, failedAt>>

listVars == <<container, lpc, marker, page, delivered, fetches, completions>>

deleteVars == <<docs, delLog>>

removeVars == <<rmIDs, rmPc, rmOps, rmPending, rmCb>>

twiceVars == <<run, archive, firstSent>>

vars == <<bulkVars, setupVars, listVars, deleteVars, removeVars, twiceVars>>

-----------------------------------------------------------------------------
(* Bounds of the model *)
MaxEntries == 3

(* async.queue(envelopeStagingWorker, 10): scaled down so that the limit    *)
(* binds with MaxEntries tasks.                                            *)
Concurrency == 2

(* number of concurrent setup invocations *)
NProcs == 2

(* last value of the clock *)
MaxClock == 4

(* var perPage = 10000 of listContent, scaled down *)
perPage == 2

(* getFiles requests after which the model stops following an enumeration *)
MaxFetches == 4

-----------------------------------------------------------------------------
(* Strings are sequences of characters so that encoding is not the identity *)

Xa == <<"X", "/", "a">>
Xb == <<"X", "/", "b">>
Xc == <<"X", "/", "c">>
BaseX == <<"X", "/">>
NoBase == <<>>

Yd == <<"Y", "/", "d">>

ContentIDs == {Xa, Xb, Xc, Yd}

RECURSIVE encodeURIComponent(_)
encodeURIComponent(s) ==
  IF s = <<>> THEN <<>>
  ELSE LET c == Head(s)
           e == IF c = "/" THEN <<"%", "2", "F">>
                ELSE IF c = " " THEN <<"%", "2", "0">>
                ELSE <<c>>
       IN e \o encodeURIComponent(Tail(s))

HexPair(h, l) ==
  IF h = "2" /\ l \in {"F", "f"} THEN "/"
  ELSE IF h = "2" /\ l = "0" THEN " "
  ELSE "?"

RECURSIVE decodeURIComponent(_)
decodeURIComponent(s) ==
  IF s = <<>> THEN <<>>
  ELSE IF Head(s) = "%" /\ Len(s) >= 3
       THEN <<HexPair(s[2], s[3])>> \o decodeURIComponent(SubSeq(s, 4, Len(s)))
       ELSE <<Head(s)>> \o decodeURIComponent(Tail(s))

(* storage.listStagingEnvelopes({prefix}): the stored IDs that begin with   *)
(* the prefix                                                               *)
HasPrefix(id, p) == Len(id) >= Len(p) /\ SubSeq(id, 1, Len(p)) = p

listStagingEnvelopes(prefix) == {id \in stored : HasPrefix(id, prefix)}

-----------------------------------------------------------------------------
(* The archive entries the decoder can emit.  json is the outcome of        *)
(* jsonFromStream on the entry body: "bad" (JSON.parse throws), "nokey"     *)
(* (parsed, required key missing) or "ok".                                  *)

ConfigEntries == {[kind |-> "config", json |-> j, base |-> BaseX, name |-> <<>>, keep |-> {}]
                     : j \in {"ok", "nokey", "bad"}}
KeepEntries == {[kind |-> "keep", json |-> "ok", base |-> NoBase, name |-> <<>>, keep |-> {Xb}],
                [kind |-> "keep", json |-> "bad", base |-> NoBase, name |-> <<>>, keep |-> {}],
                [kind |-> "keep", json |-> "nokey", base |-> NoBase, name |-> <<>>, keep |-> {}]}
RecordNames == {<<"X", "%", "2", "F", "a">>, <<"X", "%", "2", "f", "b">>}
RecordEntries == {[kind |-> "record", json |-> j, base |-> NoBase, name |-> n, keep |-> {}]
                     : j \in {"ok", "bad"}, n \in RecordNames}
OtherEntries == {[kind |-> "other", json |-> "ok", base |-> NoBase, name |-> <<>>, keep |-> {}]}

Entries == ConfigEntries \cup KeepEntries \cup RecordEntries \cup OtherEntries

-----------------------------------------------------------------------------
(* The search engine and the listing while no setup and no listing runs *)
Procs == 1..NProcs

SetupAt(gens, aliased) ==
  /\ latch = FALSE
  /\ indices = gens
  /\ alias = aliased
  /\ clock = 3
  /\ spc = [p \in Procs |-> "connect"]
  /\ indexName = [p \in Procs |-> 0]
  /\ toGC = [p \in Procs |-> {}]
  /\ cbs = [p \in Procs |-> <<>>]
  /\ got400 = {}
  /\ faulty = {}
  /\ creators = {}
  /\ promoters = {}
  /\ aliasBefore = aliased
  /\ removed = {}
  /\ failedAt = [p \in Procs |-> "none"]

SetupIdle == SetupAt({}, {})

ListAt(ids) ==
  /\ container = ids
  /\ lpc = "fetching"
  /\ marker = <<>>
  /\ page = <<>>
  /\ delivered = <<>>
  /\ fetches = 0
  /\ completions = 0

ListIdle == ListAt({})

DeleteIdle ==
  /\ docs = {}
  /\ delLog = <<>>

RemoveAt(ids) ==
  /\ rmIDs = ids
  /\ rmPc = "start"
  /\ rmOps = {}
  /\ rmPending = {}
  /\ rmCb = <<>>

RemoveIdle == RemoveAt(<<>>)

SingleUpload ==
  /\ run = 0
  /\ archive = <<>>
  /\ firstSent = <<>>

-----------------------------------------------------------------------------
(* Contents of the stores before the request *)
InitialStores == {{}, {Xa, Xb, Xc, Yd}}

InitBulk ==
  /\ nEntries = 0
  /\ nRecords = 0
  /\ nMalformed = 0
  /\ batchNames = {}
  /\ keepListed = {}
  /\ decode = "reading"
  /\ contentIDBase = NoBase
  /\ envelopeCount = 0
  /\ failureCount = 0
  /\ deletionCount = 0
  /\ toKeep = {}
  /\ tasks = <<>>
  /\ workers = {}
  /\ late = {}
  /\ processScheduled = FALSE
  /\ drainArmed = FALSE
  /\ rec = "idle"
  /\ toDelete = {}
  /\ sent = <<>>
  /\ nextCalls = <<>>
  /\ stored \in InitialStores
  /\ indexed = stored
  /\ finished = {}

Init == InitBulk /\ SetupIdle /\ ListIdle /\ DeleteIdle /\ RemoveIdle /\ SingleUpload

-----------------------------------------------------------------------------
(* reportCompletion *)

\* mutant: the status does not look at the failure counter
StatusCode_Always200(failed) == 200

StatusCode(failed) == IF failed = 0 THEN 200 ELSE 500

Payload(accepted, failed, deleted) ==
  [kind |-> "report", accepted |-> accepted, failed |-> failed, deleted |-> deleted]

\* res.send(statusCode, payload); next();   nc: the continuation calls made so far
reportCompletion(accepted, failed, deleted, nc) ==
  /\ sent' = Append(sent, [status |-> StatusCode(failed),
                           body |-> Payload(accepted, failed, deleted)])
  /\ nextCalls' = Append(nc, "ok")

(* The names ./remove exports, and what bulk.js binds removeEnvelopes to *)
RemoveExports == {"handler", "removeStagingEnvelopes"}

removeEnvelopes ==
  IF "removeEnvelopes" \in RemoveExports THEN "function" ELSE "undefined"

\* mutant: the test for a missing contentIDBase is left out
finishRequest_AlwaysLists(accepted, failed) ==
  /\ rec' = "listing"
  /\ UNCHANGED <<sent, nextCalls>>

\* finishRequest up to the first asynchronous call of removeDeletedStagingContent:
\* without a contentIDBase the callback runs at once and the report is sent.
finishRequest(accepted, failed) ==
  IF contentIDBase = NoBase
  THEN /\ rec' = "done"
       /\ reportCompletion(accepted, failed, deletionCount, nextCalls)
  ELSE /\ rec' = "listing"
       /\ UNCHANGED <<sent, nextCalls>>

-----------------------------------------------------------------------------
(* async.queue *)

Min(a, b) == IF a < b THEN a ELSE b

\* uploadQueue.running()
running == Cardinality(workers)

\* mutant: process() starts every waiting task
NumToStart_NoLimit(ts, ws) == Len(ts)

\* q.process(): start waiting tasks while a worker slot is free
NumToStart(ts, ws) == Min(Concurrency - Cardinality(ws), Len(ts))

Started(ts, ws) ==
  {[tid |-> ts[i].tid, contentID |-> ts[i].contentID, kv |-> "pending", fts |-> "pending"]
     : i \in 1..NumToStart(ts, ws)}

Remaining(ts, ws) == SubSeq(ts, NumToStart(ts, ws) + 1, Len(ts))

\* the callback of async.queue's worker: release the slot, drain when idle,
\* then process.  ws: the workers without the one that called back.
QueueNext(ws, accepted, failed) ==
  /\ IF Len(tasks) + Cardinality(ws) = 0 /\ drainArmed
     THEN finishRequest(accepted, failed)
     ELSE UNCHANGED <<rec, sent, nextCalls>>
  /\ workers' = ws \cup Started(tasks, ws)
  /\ tasks' = Remaining(tasks, ws)

-----------------------------------------------------------------------------
(* extract.on('entry'): the entry's handler together with the callback of   *)
(* jsonFromStream on its body.  Entry bodies end in archive order, before   *)
(* the decoder's finish event.                                              *)

CanRead == decode = "reading" /\ nEntries < MaxEntries

\* the decoder emits the entries of the archive in their order; a single
\* upload (run 0) is of any archive
IsNextEntry(e) ==
  run = 0 \/ (nEntries < Len(archive) /\ archive[nEntries + 1] = e)

\* the decoder has emitted every entry
AtEndOfArchive == run = 0 \/ nEntries = Len(archive)

handleConfigEntry(e) ==
  /\ CanRead
  /\ IsNextEntry(e)
  /\ e.kind = "config"
  /\ nEntries' = nEntries + 1
  /\ UNCHANGED <<nRecords, nMalformed, batchNames, keepListed>>
  /\ contentIDBase' = IF e.json = "ok" THEN e.base ELSE contentIDBase
  /\ UNCHANGED <<decode, envelopeCount, failureCount, deletionCount, toKeep, tasks,
                 workers, late, processScheduled, drainArmed, rec, toDelete, sent,
                 nextCalls, stored, indexed, finished>>
  /\ UNCHANGED <<setupVars, listVars, deleteVars, removeVars, twiceVars>>

handleKeepEntry(e) ==
  /\ CanRead
  /\ IsNextEntry(e)
  /\ e.kind = "keep"
  /\ nEntries' = nEntries + 1
  /\ keepListed' = IF e.json = "ok" THEN keepListed \cup e.keep ELSE keepListed
  /\ UNCHANGED <<nRecords, nMalformed, batchNames>>
  /\ toKeep' = IF e.json = "ok" THEN toKeep \cup e.keep ELSE toKeep
  /\ UNCHANGED <<decode, contentIDBase, envelopeCount, failureCount, deletionCount,
                 tasks, workers, late, processScheduled, drainArmed, rec, toDelete,
                 sent, nextCalls, stored, indexed, finished>>
  /\ UNCHANGED <<setupVars, listVars, deleteVars, removeVars, twiceVars>>

\* mutant: the ID is kept only once its body has parsed
KeepAfterEntry_OnlyParsed(keep, contentID, json) ==
  IF json = "ok" THEN keep \cup {contentID} ELSE keep

\* toKeep[contentID] = true, before the body is parsed
KeepAfterEntry(keep, contentID, json) == keep \cup {contentID}

\* mutant: the error branch does not return, the task is pushed all the same
SubmitsTask_Always(json) == TRUE

\* the task is pushed unless jsonFromStream reported an error
SubmitsTask(json) == json # "bad"

handleStagingEnvelopeEntry(e) ==
  /\ CanRead
  /\ IsNextEntry(e)
  /\ e.kind = "record"
  /\ nEntries' = nEntries + 1
  /\ nRecords' = nRecords + 1
  /\ nMalformed' = IF e.json = "bad" THEN nMalformed + 1 ELSE nMalformed
  /\ batchNames' = batchNames \cup {e.name}
  /\ UNCHANGED keepListed
  /\ LET contentID == decodeURIComponent(e.name)
     IN /\ toKeep' = KeepAfterEntry(toKeep, contentID, e.json)
        /\ IF ~SubmitsTask(e.json)
           THEN /\ failureCount' = failureCount + 1
                /\ UNCHANGED <<tasks, processScheduled>>
           ELSE /\ tasks' = Append(tasks, [tid |-> nEntries + 1, contentID |-> contentID])
                /\ processScheduled' = TRUE
                /\ UNCHANGED failureCount
  /\ UNCHANGED <<decode, contentIDBase, envelopeCount, deletionCount, workers, late,
                 drainArmed, rec, toDelete, sent, nextCalls, stored, indexed, finished>>
  /\ UNCHANGED <<setupVars, listVars, deleteVars, removeVars, twiceVars>>

unrecognizedEntry(e) ==
  /\ CanRead
  /\ IsNextEntry(e)
  /\ e.kind = "other"
  /\ nEntries' = nEntries + 1
  /\ UNCHANGED <<nRecords, nMalformed, batchNames, keepListed>>
  /\ UNCHANGED <<decode, contentIDBase, envelopeCount, failureCount, deletionCount,
                 toKeep, tasks, workers, late, processScheduled, drainArmed, rec,
                 toDelete, sent, nextCalls, stored, indexed, finished>>
  /\ UNCHANGED <<setupVars, listVars, deleteVars, removeVars, twiceVars>>

\* mutant: the decoder's error is answered as a success
ErrorResponse_200 == [status |-> 200, body |-> [kind |-> "error"]]

\* res.send(400, err)
ErrorResponse == [status |-> 400, body |-> [kind |-> "error"]]

\* extract.on('error')
extractError ==
  /\ decode = "reading"
  /\ decode' = "error"
  /\ sent' = Append(sent, ErrorResponse)
  /\ nextCalls' = Append(nextCalls, "ok")
  /\ UNCHANGED <<nEntries, nRecords, nMalformed, batchNames, keepListed,
                 contentIDBase, envelopeCount, failureCount, deletionCount,
                 toKeep, tasks, workers, late, processScheduled, drainArmed, rec,
                 toDelete, stored, indexed, finished>>
  /\ UNCHANGED <<setupVars, listVars, deleteVars, removeVars, twiceVars>>

\* extract.on('finish')
extractFinish ==
  /\ decode = "reading"
  /\ AtEndOfArchive
  /\ decode' = "finished"
  /\ IF running > 0
     THEN /\ drainArmed' = TRUE
          /\ UNCHANGED <<rec, sent, nextCalls>>
     ELSE /\ finishRequest(envelopeCount, failureCount)
          /\ UNCHANGED drainArmed
  /\ UNCHANGED <<nEntries, nRecords, nMalformed, batchNames, keepListed,
                 contentIDBase, envelopeCount, failureCount, deletionCount,
                 toKeep, tasks, workers, late, processScheduled, toDelete, stored,
                 indexed, finished>>
  /\ UNCHANGED <<setupVars, listVars, deleteVars, removeVars, twiceVars>>

-----------------------------------------------------------------------------
(* the queue's deferred process() call and the worker's two writes *)

queueProcess ==
  /\ processScheduled
  /\ processScheduled' = FALSE
  /\ workers' = workers \cup Started(tasks, workers)
  /\ tasks' = Remaining(tasks, workers)
  /\ UNCHANGED <<nEntries, nRecords, nMalformed, batchNames, keepListed,
                 decode, contentIDBase, envelopeCount, failureCount,
                 deletionCount, toKeep, late, drainArmed, rec, toDelete, sent,
                 nextCalls, stored, indexed, finished>>
  /\ UNCHANGED <<setupVars, listVars, deleteVars, removeVars, twiceVars>>

Other(which) == IF which = "kv" THEN "fts" ELSE "kv"

\* what a write that succeeded leaves in its store
StoreEffect(id, which, outcome) ==
  /\ stored' = IF which = "kv" /\ outcome = "ok" THEN stored \cup {id} ELSE stored
  /\ indexed' = IF which = "fts" /\ outcome = "ok" THEN indexed \cup {id} ELSE indexed

\* async.parallel calls back on the first error, or when both writes succeeded
ParallelCallsBack(w, which, outcome) ==
  outcome = "fail" \/ w[Other(which)] = "ok"

\* One of the two writes of storeStagingEnvelope calls back.
writeResolve(w, which, outcome) ==
  /\ w \in workers
  /\ w[which] = "pending"
  /\ StoreEffect(w.contentID, which, outcome)
  /\ IF ParallelCallsBack(w, which, outcome)
     THEN LET accepted == IF outcome = "ok" THEN envelopeCount + 1 ELSE envelopeCount
              failed == IF outcome = "ok" THEN failureCount ELSE failureCount + 1
          IN /\ envelopeCount' = accepted
             /\ failureCount' = failed
             /\ finished' = finished \cup {[tid |-> w.tid, outcome |-> outcome]}
             /\ late' = IF w[Other(which)] = "pending"
                        THEN late \cup {[tid |-> w.tid, contentID |-> w.contentID,
                                         which |-> Other(which)]}
                        ELSE late
             /\ QueueNext(workers \ {w}, accepted, failed)
     ELSE /\ workers' = (workers \ {w}) \cup {[w EXCEPT ![which] = outcome]}
          /\ UNCHANGED <<envelopeCount, failureCount, finished, late, tasks, rec, sent,
                         nextCalls>>
  /\ UNCHANGED <<nEntries, nRecords, nMalformed, batchNames, keepListed,
                 decode, contentIDBase, deletionCount, toKeep,
                 processScheduled, drainArmed, toDelete>>
  /\ UNCHANGED <<setupVars, listVars, deleteVars, removeVars, twiceVars>>

\* the other write of a task that async.parallel already reported as failed
lateResolve(l, outcome) ==
  /\ l \in late
  /\ late' = late \ {l}
  /\ StoreEffect(l.contentID, l.which, outcome)
  /\ UNCHANGED <<nEntries, nRecords, nMalformed, batchNames, keepListed,
                 decode, contentIDBase, envelopeCount, failureCount,
                 deletionCount, toKeep, tasks, workers, processScheduled, drainArmed,
                 rec, toDelete, sent, nextCalls, finished>>
  /\ UNCHANGED <<setupVars, listVars, deleteVars, removeVars, twiceVars>>

-----------------------------------------------------------------------------
(* removeDeletedStagingContent: the end of the listing *)

listingFails ==
  /\ rec = "listing"
  /\ rec' = "done"
  \* reportError(err, null, ..., true) calls next(err); reportCompletion follows
  /\ reportCompletion(envelopeCount, failureCount, deletionCount,
                      Append(nextCalls, "err"))
  /\ UNCHANGED <<nEntries, nRecords, nMalformed, batchNames, keepListed,
                 decode, contentIDBase, envelopeCount, failureCount,
                 deletionCount, toKeep, tasks, workers, late, processScheduled,
                 drainArmed, toDelete, stored, indexed, finished>>
  /\ UNCHANGED <<setupVars, listVars, deleteVars, removeVars, twiceVars>>

ToDelete(existing, keep) == {id \in existing : id \notin keep}

listingDone ==
  /\ rec = "listing"
  /\ toDelete' = ToDelete(listStagingEnvelopes(contentIDBase), toKeep)
  /\ deletionCount' = Cardinality(toDelete')
  \* removeEnvelopes(toDelete, ...): calling an undefined binding throws
  /\ rec' = IF removeEnvelopes = "undefined" THEN "threw" ELSE "deleting"
  /\ UNCHANGED <<nEntries, nRecords, nMalformed, batchNames, keepListed,
                 decode, contentIDBase, envelopeCount, failureCount, toKeep,
                 tasks, workers, late, processScheduled, drainArmed, sent, nextCalls,
                 stored, indexed, finished>>
  /\ UNCHANGED <<setupVars, listVars, deleteVars, removeVars, twiceVars>>

-----------------------------------------------------------------------------
Next ==
  \/ \E e \in Entries : handleConfigEntry(e)
  \/ \E e \in Entries : handleKeepEntry(e)
  \/ \E e \in Entries : handleStagingEnvelopeEntry(e)
  \/ \E e \in Entries : unrecognizedEntry(e)
  \/ extractError
  \/ extractFinish
  \/ queueProcess
  \/ \E w \in workers, which \in {"kv", "fts"}, outcome \in {"ok", "fail"} :
        writeResolve(w, which, outcome)
  \/ \E l \in late, outcome \in {"ok", "fail"} : lateResolve(l, outcome)
  \/ listingFails
  \/ listingDone

Spec == Init /\ [][Next]_vars

-----------------------------------------------------------------------------
(* The same archive uploaded twice in sequence.  The second request starts  *)
(* when the first is over and nothing of it is left in the queue; its        *)
(* handler starts with a fresh closure state, the stores are as the first    *)
(* upload left them.  The backend is the same in both runs: every write      *)
(* succeeds and the listing answers.                                         *)

ConfigEntry == [kind |-> "config", json |-> "ok", base |-> BaseX, name |-> <<>>,
                keep |-> {}]
KeepEntry == [kind |-> "keep", json |-> "ok", base |-> NoBase, name |-> <<>>,
              keep |-> {Xb}]
OtherEntry == [kind |-> "other", json |-> "ok", base |-> NoBase, name |-> <<>>,
               keep |-> {}]
RecordEntry(name, json) ==
  [kind |-> "record", json |-> json, base |-> NoBase, name |-> name, keep |-> {}]
RecordA == RecordEntry(<<"X", "%", "2", "F", "a">>, "ok")
RecordB == RecordEntry(<<"X", "%", "2", "f", "b">>, "ok")
RecordBad == RecordEntry(<<"X", "%", "2", "f", "b">>, "bad")

ReplayArchives ==
  {<<RecordA>>, <<RecordA, RecordB>>, <<RecordBad, RecordA>>,
   <<OtherEntry, RecordA>>, <<ConfigEntry, RecordA>>,
   <<ConfigEntry, KeepEntry, RecordA>>}

\* the first request is over and the same archive is posted again
secondUpload ==
  /\ run = 1
  /\ decode = "finished"
  /\ rec \in {"done", "threw"}
  /\ tasks = <<>> /\ workers = {} /\ late = {}
  /\ ~processScheduled
  /\ run' = 2
  /\ firstSent' = sent
  /\ nEntries' = 0 /\ nRecords' = 0 /\ nMalformed' = 0
  /\ batchNames' = {} /\ keepListed' = {}
  /\ decode' = "reading"
  /\ contentIDBase' = NoBase
  /\ envelopeCount' = 0 /\ failureCount' = 0 /\ deletionCount' = 0
  /\ toKeep' = {}
  /\ drainArmed' = FALSE
  /\ rec' = "idle"
  /\ toDelete' = {}
  /\ sent' = <<>>
  /\ nextCalls' = <<>>
  /\ finished' = {}
  /\ UNCHANGED <<tasks, workers, late, processScheduled, stored, indexed, archive>>
  /\ UNCHANGED <<setupVars, listVars, deleteVars, removeVars>>

InitT ==
  /\ InitBulk /\ SetupIdle /\ ListIdle /\ DeleteIdle /\ RemoveIdle
  /\ run = 1
  /\ archive \in ReplayArchives
  /\ firstSent = <<>>

NextT ==
  \/ \E e \in Entries : handleConfigEntry(e)
  \/ \E e \in Entries : handleKeepEntry(e)
  \/ \E e \in Entries : handleStagingEnvelopeEntry(e)
  \/ \E e \in Entries : unrecognizedEntry(e)
  \/ extractFinish
  \/ queueProcess
  \/ \E w \in workers, which \in {"kv", "fts"} : writeResolve(w, which, "ok")
  \/ listingDone
  \/ secondUpload

SpecTwice == InitT /\ [][NextT]_vars

-----------------------------------------------------------------------------
(* RemoteStorage.setup, createNewIndex, makeIndexActive.  The search engine  *)
(* applies each request atomically; a request that fails changes nothing.   *)

OthersUnchangedBySetup ==
  UNCHANGED <<bulkVars, listVars, deleteVars, removeVars, twiceVars>>

\* callback(result) of the invocation: the invocation is over
CallBack(p, result) ==
  /\ cbs' = [cbs EXCEPT ![p] = Append(@, result)]
  /\ spc' = [spc EXCEPT ![p] = "done"]

\* mutant: the error is passed to the callback and the step is not left
Fails_NoReturn(p) ==
  /\ faulty' = faulty \cup {p}
  /\ failedAt' = [failedAt EXCEPT ![p] = spc[p]]
  /\ cbs' = [cbs EXCEPT ![p] = Append(@, "err")]
  /\ UNCHANGED spc

\* if (err) return callback(err), at the step the invocation is in
Fails(p) ==
  /\ faulty' = faulty \cup {p}
  /\ failedAt' = [failedAt EXCEPT ![p] = spc[p]]
  /\ CallBack(p, "err")


\* connection.setup((err) => ...)
connectionSetup(p, outcome) ==
  /\ spc[p] = "connect"
  /\ IF outcome = "err"
     THEN Fails(p)
     ELSE /\ spc' = [spc EXCEPT ![p] = "latch"]
          /\ UNCHANGED <<cbs, faulty, failedAt>>
  /\ UNCHANGED <<latch, indices, alias, clock, indexName, toGC, got400, creators,
                 promoters,
                 aliasBefore, removed>>
  /\ OthersUnchangedBySetup

\* mutant: the creation of the latch is answered 200 whether it exists or not
LatchStatus_Always200(exists) == 200

\* indices.create({index: 'latch', ignore: 400}): the status of the answer
LatchStatus(exists) == IF exists THEN 400 ELSE 200

\* mutant: the answer 400 is not recognised
AnotherServiceIsOnIt_Never(status) == FALSE

\* status === 400: another service is creating the search indices
AnotherServiceIsOnIt(status) == status = 400

createLatch(p, outcome) ==
  /\ spc[p] = "latch"
  /\ IF outcome = "err"
     THEN /\ Fails(p)
          /\ UNCHANGED <<latch, indexName, got400>>
     ELSE /\ latch' = TRUE
          /\ IF AnotherServiceIsOnIt(LatchStatus(latch))
             THEN /\ got400' = got400 \cup {p}
                  /\ CallBack(p, "ok")
                  /\ UNCHANGED indexName
             ELSE /\ indexName' = [indexName EXCEPT ![p] = clock]
                  /\ spc' = [spc EXCEPT ![p] = "create"]
                  /\ UNCHANGED <<got400, cbs>>
          /\ UNCHANGED <<faulty, failedAt>>
  /\ UNCHANGED <<indices, alias, clock, toGC, creators, promoters,
                 aliasBefore, removed>>
  /\ OthersUnchangedBySetup

\* createNewIndex: indices.create({index: indexName})
createIndex(p, outcome) ==
  /\ spc[p] = "create"
  /\ IF outcome = "err" \/ indexName[p] \in indices
     THEN /\ Fails(p)
          /\ UNCHANGED <<indices, creators>>
     ELSE /\ indices' = indices \cup {indexName[p]}
          /\ creators' = creators \cup {p}
          /\ spc' = [spc EXCEPT ![p] = "mapping"]
          /\ UNCHANGED <<cbs, faulty, failedAt>>
  /\ UNCHANGED <<latch, alias, clock, indexName, toGC, got400, promoters,
                 aliasBefore, removed>>
  /\ OthersUnchangedBySetup

\* createNewIndex: indices.putMapping
putMapping(p, outcome) ==
  /\ spc[p] = "mapping"
  /\ IF outcome = "err"
     THEN Fails(p)
     ELSE /\ spc' = [spc EXCEPT ![p] = "promote"]
          /\ UNCHANGED <<cbs, faulty, failedAt>>
  /\ UNCHANGED <<latch, indices, alias, clock, indexName, toGC, got400, creators,
                 promoters,
                 aliasBefore, removed>>
  /\ OthersUnchangedBySetup

\* mutant: the alias is added without the remove action
AliasesAfterUpdate_NoRemove(aliased, name) == aliased \cup {name}

\* the two actions of updateAliases, applied as one:
\* remove envelopes_current from '*', add it to indexName
AliasesAfterUpdate(aliased, name) == {name}

\* makeIndexActive: indices.updateAliases
updateAliases(p, outcome) ==
  /\ spc[p] = "promote"
  /\ IF outcome = "err"
     THEN /\ Fails(p)
          /\ UNCHANGED <<alias, promoters>>
     ELSE /\ alias' = AliasesAfterUpdate(alias, indexName[p])
          /\ promoters' = promoters \cup {p}
          /\ spc' = [spc EXCEPT ![p] = "get"]
          /\ UNCHANGED <<cbs, faulty, failedAt>>
  /\ UNCHANGED <<latch, indices, clock, indexName, toGC, got400, creators,
                 aliasBefore, removed>>
  /\ OthersUnchangedBySetup

\* mutant: nothing is filtered out of the generations to delete
IndexNamesToDelete_All(names, name) == names

\* Object.keys(response).filter((n) => n !== indexName)
IndexNamesToDelete(names, name) == {n \in names : n # name}

\* makeIndexActive: indices.get({index: 'envelopes*'}) and the start of
\* async.each, which calls back at once for an empty list
getIndices(p, outcome) ==
  /\ spc[p] = "get"
  /\ IF outcome = "err"
     THEN /\ Fails(p)
          /\ UNCHANGED toGC
     ELSE LET names == IndexNamesToDelete(indices, indexName[p])
          IN /\ toGC' = [toGC EXCEPT ![p] = names]
             /\ IF names = {}
                THEN CallBack(p, "ok")
                ELSE /\ spc' = [spc EXCEPT ![p] = "gc"]
                     /\ UNCHANGED cbs
             /\ UNCHANGED <<faulty, failedAt>>
  /\ UNCHANGED <<latch, indices, alias, clock, indexName, got400, creators,
                 promoters,
                 aliasBefore, removed>>
  /\ OthersUnchangedBySetup

\* makeIndexActive: one indices.delete of async.each answers.  async.each
\* calls back on the first error, or when every delete has succeeded; the
\* deletes already issued are answered all the same.
deleteIndex(p, n, outcome) ==
  /\ spc[p] = "gc"
  /\ n \in toGC[p]
  /\ toGC' = [toGC EXCEPT ![p] = @ \ {n}]
  /\ IF outcome = "err"
     THEN /\ faulty' = faulty \cup {p}
          /\ failedAt' = IF failedAt[p] = "none"
                         THEN [failedAt EXCEPT ![p] = "gc"]
                         ELSE failedAt
          /\ UNCHANGED <<indices, alias, removed>>
     ELSE /\ indices' = indices \ {n}
          /\ alias' = alias \ {n}
          /\ removed' = removed \cup {n}
          /\ UNCHANGED <<faulty, failedAt>>
  /\ LET result == IF outcome = "err" THEN "err" ELSE "ok"
         called == cbs[p] # <<>>
         last == toGC[p] = {n}
     IN /\ cbs' = IF ~called /\ (outcome = "err" \/ last)
                  THEN [cbs EXCEPT ![p] = Append(@, result)]
                  ELSE cbs
        /\ spc' = IF last THEN [spc EXCEPT ![p] = "done"] ELSE spc
  /\ UNCHANGED <<latch, clock, indexName, got400, creators, promoters,
                 aliasBefore>>
  /\ OthersUnchangedBySetup

\* time passes
tick ==
  /\ clock < MaxClock
  /\ clock' = clock + 1
  /\ UNCHANGED <<latch, indices, alias, spc, indexName, toGC, cbs, got400, faulty,
                 creators, promoters,
                 aliasBefore, removed, failedAt>>
  /\ OthersUnchangedBySetup

(* The generations found when the invocations start: none, one that holds   *)
(* the alias, or two of which the newer holds it.                           *)
InitSetup ==
  \/ SetupAt({}, {})
  \/ SetupAt({1}, {1})
  \/ SetupAt({1, 2}, {2})

BulkIdle == InitBulk /\ stored = {}

InitS ==
  BulkIdle /\ InitSetup /\ ListIdle /\ DeleteIdle /\ RemoveIdle /\ SingleUpload

NextS ==
  \/ \E p \in Procs, outcome \in {"ok", "err"} : connectionSetup(p, outcome)
  \/ \E p \in Procs, outcome \in {"ok", "err"} : createLatch(p, outcome)
  \/ \E p \in Procs, outcome \in {"ok", "err"} : createIndex(p, outcome)
  \/ \E p \in Procs, outcome \in {"ok", "err"} : putMapping(p, outcome)
  \/ \E p \in Procs, outcome \in {"ok", "err"} : updateAliases(p, outcome)
  \/ \E p \in Procs, outcome \in {"ok", "err"} : getIndices(p, outcome)
  \/ \E p \in Procs, outcome \in {"ok", "err"} : \E n \in toGC[p] :
        deleteIndex(p, n, outcome)
  \/ tick

SpecSetup == InitS /\ [][NextS]_vars

-----------------------------------------------------------------------------
(* RemoteStorage.listContent over the content container.  _storeContent     *)
(* names the object of a contentID encodeURIComponent(contentID); getFiles   *)
(* answers with up to limit object names above the marker, in byte order.    *)

OthersUnchangedByList ==
  UNCHANGED <<bulkVars, setupVars, deleteVars, removeVars, twiceVars>>

Code(c) ==
  CASE c = " " -> 32 [] c = "%" -> 37 [] c = "/" -> 47 [] c = "0" -> 48
    [] c = "2" -> 50 [] c = "F" -> 70 [] c = "X" -> 88 [] c = "Y" -> 89
    [] c = "a" -> 97 [] c = "b" -> 98 [] c = "c" -> 99 [] c = "d" -> 100

RECURSIVE Less(_, _)
Less(s, t) ==
  IF t = <<>> THEN FALSE
  ELSE IF s = <<>> THEN TRUE
  ELSE IF Head(s) # Head(t) THEN Code(Head(s)) < Code(Head(t))
  ELSE Less(Tail(s), Tail(t))

RECURSIVE Sorted(_)
Sorted(S) ==
  IF S = {} THEN <<>>
  ELSE LET least == CHOOSE n \in S : \A m \in S : m = n \/ Less(n, m)
       IN <<least>> \o Sorted(S \ {least})

ObjectNames == {encodeURIComponent(id) : id \in container}

\* connection.client.getFiles(container, {limit, marker}): e.name of each file
getFiles(limit, after) ==
  LET above == Sorted({n \in ObjectNames : Less(after, n)})
  IN SubSeq(above, 1, Min(limit, Len(above)))

\* files.map(function (e) { return decodeURIComponent(e.name); })
FileNames(files) == [i \in 1..Len(files) |-> decodeURIComponent(files[i])]

\* nextPage(fileNames[fileNames.length - 1])
NextMarker(fileNames) == fileNames[Len(fileNames)]

\* the getFiles request is answered and the page is handed to the consumer
getFilesAnswers ==
  /\ lpc = "fetching"
  /\ fetches < MaxFetches
  /\ LET fileNames == FileNames(getFiles(perPage, marker))
     IN /\ page' = fileNames
        /\ delivered' = delivered \o fileNames
        /\ completions' = IF fileNames = <<>> THEN completions + 1 ELSE completions
  /\ fetches' = fetches + 1
  /\ lpc' = "delivered"
  /\ UNCHANGED <<container, marker>>
  /\ OthersUnchangedByList

\* the getFiles request fails: callback(err)
getFilesFails ==
  /\ lpc = "fetching"
  /\ lpc' = "failed"
  /\ UNCHANGED <<container, marker, page, delivered, fetches, completions>>
  /\ OthersUnchangedByList

\* the consumer calls next()
next ==
  /\ lpc = "delivered"
  /\ IF Len(page) = 0
     THEN /\ lpc' = "done"
          /\ UNCHANGED <<marker, completions>>
     ELSE IF Len(page) < perPage
     THEN /\ lpc' = "done"
          /\ completions' = completions + 1
          /\ UNCHANGED marker
     ELSE /\ lpc' = "fetching"
          /\ marker' = NextMarker(page)
          /\ UNCHANGED completions
  /\ UNCHANGED <<container, page, delivered, fetches>>
  /\ OthersUnchangedByList

(* contentIDs the container may hold *)
Pa == <<"a">>
Pb == <<"b">>
Pc == <<"c">>

ListableIDs == {Pa, Pb, Pc, Xa, Xb, Xc}

InitL ==
  /\ BulkIdle /\ SetupIdle /\ DeleteIdle /\ RemoveIdle /\ SingleUpload
  /\ \E ids \in SUBSET ListableIDs : ListAt(ids)

NextL ==
  \/ getFilesAnswers
  \/ getFilesFails
  \/ next

SpecList == InitL /\ [][NextL]_vars

-----------------------------------------------------------------------------
(* RemoteStorage.deleteContent and unindexContent.  The content container   *)
(* holds one object per contentID, named encodeURIComponent(contentID); the  *)
(* index envelopes_current holds one document per contentID.  A backend      *)
(* answers a delete of something absent with its not-found error, and may    *)
(* fail with another error.  An error is a record of the two fields the code *)
(* reads; a field that is not there reads 0 or "".                           *)

MaxDeletes == 3

OthersUnchangedByDelete ==
  UNCHANGED <<bulkVars, setupVars, removeVars, twiceVars, lpc, marker, page,
              delivered, fetches, completions>>

Null == [statusCode |-> 0, status |-> ""]

\* the blob store's errors carry the HTTP status as the number statusCode
CloudNotFound == [statusCode |-> 404, status |-> ""]
CloudFailure == [statusCode |-> 500, status |-> ""]

\* the search client's errors carry the HTTP status as the string status
SearchNotFound == [statusCode |-> 0, status |-> "404"]
SearchFailure == [statusCode |-> 0, status |-> "500"]

\* connection.client.removeFile(container, name, cb): the error passed to cb
removeFile(name, answer) ==
  IF answer = "fail" THEN CloudFailure
  ELSE IF name \in ObjectNames THEN Null
  ELSE CloudNotFound

\* connection.elastic.delete({index, type, id}, cb): the error passed to cb
elasticDelete(id, answer) ==
  IF answer = "fail" THEN SearchFailure
  ELSE IF id \in docs THEN Null
  ELSE SearchNotFound

\* mutant: a not-found answer of the blob store is passed on as an error
AlreadyDeleted_Never(err) == FALSE

\* err && err.statusCode === 404
AlreadyDeleted(err) == err # Null /\ err.statusCode = 404

\* err && err.status === '404'
AlreadyGone(err) == err # Null /\ err.status = "404"

DeleteCall(op, id, err, result, unchanged) ==
  [op |-> op, id |-> id, err |-> err, result |-> result, unchanged |-> unchanged]

deleteContent(contentID, answer) ==
  /\ Len(delLog) < MaxDeletes
  /\ LET name == encodeURIComponent(contentID)
         err == removeFile(name, answer)
         after == IF err = Null
                  THEN {id \in container : encodeURIComponent(id) # name}
                  ELSE container
         result == IF AlreadyDeleted(err) THEN Null ELSE err
     IN /\ container' = after
        /\ delLog' = Append(delLog, DeleteCall("deleteContent", contentID, err,
                                               result, after = container))
  /\ UNCHANGED docs
  /\ OthersUnchangedByDelete

unindexContent(contentID, answer) ==
  /\ Len(delLog) < MaxDeletes
  /\ LET err == elasticDelete(contentID, answer)
         after == IF err = Null THEN docs \ {contentID} ELSE docs
         result == IF AlreadyGone(err) THEN Null ELSE err
     IN /\ docs' = after
        /\ delLog' = Append(delLog, DeleteCall("unindexContent", contentID, err,
                                               result, after = docs))
  /\ UNCHANGED container
  /\ OthersUnchangedByDelete

(* the contentIDs that are deleted, and what the stores hold at the start *)
DeletableIDs == {Xa, Yd}

InitD ==
  /\ BulkIdle
  /\ SetupIdle /\ RemoveIdle /\ SingleUpload
  /\ \E ids \in SUBSET DeletableIDs : ListAt(ids)
  /\ docs \in SUBSET DeletableIDs
  /\ delLog = <<>>

NextD ==
  \/ \E id \in DeletableIDs, answer \in {"answered", "fail"} :
        deleteContent(id, answer)
  \/ \E id \in DeletableIDs, answer \in {"answered", "fail"} :
        unindexContent(id, answer)

SpecDelete == InitD /\ [][NextD]_vars

-----------------------------------------------------------------------------
(* removeStagingEnvelopes.  The storage operations it calls belong to the    *)
(* storage facade: a single-item operation removes its contentID, a bulk     *)
(* operation removes every contentID of its list, from the document store    *)
(* (stored) or from the search index (indexed); an operation that fails      *)
(* removes nothing.                                                          *)

MaxRemove == 3

OthersUnchangedByRemove ==
  UNCHANGED <<nEntries, nRecords, nMalformed, batchNames, keepListed, decode,
              contentIDBase, envelopeCount, failureCount, deletionCount, toKeep,
              tasks, workers, late, processScheduled, drainArmed, rec, toDelete,
              sent, nextCalls, finished, setupVars, listVars, deleteVars,
              twiceVars>>

Range(seq) == {seq[i] : i \in 1..Len(seq)}

\* mutant: the single-item operations are used for every list
UsesSinglePath_Always(contentIDs) == TRUE

\* contentIDs.length === 1
UsesSinglePath(contentIDs) == Len(contentIDs) = 1

\* kvDelete, ftsDelete: the operation issued on one of the two stores
StorageOp(store, contentIDs) ==
  IF UsesSinglePath(contentIDs)
  THEN [store |-> store, form |-> "single", ids |-> {contentIDs[1]}]
  ELSE [store |-> store, form |-> "bulk", ids |-> Range(contentIDs)]

\* what a storage operation that succeeds leaves of the store's contents
AfterDelete(contents, op) == contents \ op.ids

\* removeStagingEnvelopes(contentIDs, callback) up to its return
removeStagingEnvelopes ==
  /\ rmPc = "start"
  /\ IF Len(rmIDs) = 0
     THEN /\ rmPc' = "tick"
          /\ UNCHANGED <<rmOps, rmPending>>
     ELSE /\ rmPc' = "pending"
          /\ rmOps' = {StorageOp("kv", rmIDs), StorageOp("fts", rmIDs)}
          /\ rmPending' = {"kv", "fts"}
  /\ UNCHANGED <<rmIDs, rmCb, stored, indexed>>
  /\ OthersUnchangedByRemove

\* process.nextTick(callback)
nextTick ==
  /\ rmPc = "tick"
  /\ rmPc' = "done"
  /\ rmCb' = Append(rmCb, "ok")
  /\ UNCHANGED <<rmIDs, rmOps, rmPending, stored, indexed>>
  /\ OthersUnchangedByRemove

\* one of the two operations calls back; async.parallel calls the final
\* callback at the first error, or when both have succeeded
deleteAnswers(store, outcome) ==
  /\ rmPc = "pending"
  /\ store \in rmPending
  /\ rmPending' = rmPending \ {store}
  /\ LET op == CHOOSE o \in rmOps : o.store = store
     IN IF outcome = "err"
        THEN UNCHANGED <<stored, indexed>>
        ELSE IF store = "kv"
        THEN stored' = AfterDelete(stored, op) /\ UNCHANGED indexed
        ELSE indexed' = AfterDelete(indexed, op) /\ UNCHANGED stored
  /\ rmCb' = IF rmCb # <<>> THEN rmCb
             ELSE IF outcome = "err" THEN <<"err">>
             ELSE IF rmPending = {store} THEN <<"ok">>
             ELSE rmCb
  /\ rmPc' = IF rmPending = {store} THEN "done" ELSE rmPc
  /\ UNCHANGED <<rmIDs, rmOps>>
  /\ OthersUnchangedByRemove

(* the lists removeStagingEnvelopes is called with: distinct contentIDs *)
RemovableIDs == {Xa, Xb, Xc}

RemoveLists ==
  {l \in UNION {[1..n -> RemovableIDs] : n \in 0..MaxRemove} :
     \A i, j \in 1..Len(l) : i # j => l[i] # l[j]}

InitR ==
  /\ InitBulk
  /\ SetupIdle /\ ListIdle /\ DeleteIdle /\ SingleUpload
  /\ \E ids \in RemoveLists : RemoveAt(ids)

NextR ==
  \/ removeStagingEnvelopes
  \/ nextTick
  \/ \E store \in {"kv", "fts"}, outcome \in {"ok", "err"} :
        deleteAnswers(store, outcome)

SpecRemove == InitR /\ [][NextR]_vars

-----------------------------------------------------------------------------
(* Properties of the bulk upload *)

Reports == {i \in 1..Len(sent) : sent[i].body.kind = "report"}

FinishedWith(outcome) == {f \in finished : f.outcome = outcome}

QueueIdle == tasks = <<>> /\ workers = {}

\* C1: for an archive that decodes without error, no task submitted by the
\* request is waiting in the queue or executing once reconciliation has
\* started or the completion report has been sent.
C1_ReportAfterDrain ==
  (rec # "idle" \/ Reports # {}) => QueueIdle

\* C2: the request's continuation is invoked exactly once and at most one
\* response is sent: never twice, and once the handler has run to its end
\* it has been invoked.
C2_NextExactlyOnce ==
  /\ Len(nextCalls) <= 1
  /\ Len(sent) <= 1
  /\ (rec \in {"done", "threw"} => Len(nextCalls) = 1)

\* C5: the percent-decoded contentID of every record entry of the archive,
\* whether or not its body parsed and its writes succeeded, and every ID
\* listed in a valid keep.json, is in the KeepSet when decoding has finished,
\* and so is never in toDelete.
C5_BatchNeverDeleted ==
  LET protected == {decodeURIComponent(n) : n \in batchNames} \cup keepListed
  IN /\ protected \subseteq toKeep
     /\ toDelete \cap protected = {}

\* C5 witness: reconciliation computed a non-empty toDelete while a stored ID
\* under the prefix was protected by a record entry whose body did not parse.
C5_Witness ==
  /\ rec = "threw"
  /\ toDelete # {}
  /\ <<"X", "%", "2", "F", "a">> \in batchNames
  /\ nMalformed = nRecords /\ nRecords > 0
  /\ Xa \in stored /\ Xa \notin toDelete
  /\ Xb \in keepListed /\ Xb \notin toDelete

\* C6: once reconciliation has listed the stored IDs under contentIDBase, it
\* has removed every ID of existingIDs minus KeepSet from the document store
\* and from the search index, and every kept ID is still stored and indexed.
C6_DeletesExactlyDifference ==
  rec \in {"threw", "done"} =>
    /\ toDelete \cap stored = {}
    /\ toDelete \cap indexed = {}

\* C7: when the completion report is sent every record entry has been
\* counted exactly once: accepted is the number of tasks whose two writes
\* succeeded, failed the number of unparsable records plus failed tasks, and
\* accepted + failed is the number of record entries.
C7_EveryRecordCounted ==
  \A i \in Reports :
    /\ sent[i].body.accepted = Cardinality(FinishedWith("ok"))
    /\ sent[i].body.accepted + sent[i].body.failed = nRecords

C9_MalformedRecordIsolated ==
  LET submitted == Len(tasks) + Cardinality(workers) + Cardinality(finished)
  IN /\ failureCount = nMalformed + Cardinality(FinishedWith("fail"))
     /\ submitted = nRecords - nMalformed
     /\ (tasks # <<>> => processScheduled \/ running = Concurrency)
     /\ (QueueIdle => Cardinality(finished) = nRecords - nMalformed)

\* C9 witness: an unparsable record came first, a valid record after it was
\* submitted, ran and was accepted.
C9_Witness ==
  /\ nEntries = 2
  /\ nMalformed = 1
  /\ nRecords = 2
  /\ failureCount = 1
  /\ envelopeCount = 1
  /\ QueueIdle
  /\ \E f \in finished : f.tid = 2 /\ f.outcome = "ok"

\* C11: without a captured contentIDBase reconciliation is skipped: no
\* listing is issued, nothing is marked for deletion, deleted is 0 in the
\* report and the request is not aborted; the counters depend on the record
\* entries alone, so a malformed config.json or keep.json changes none of
\* them, and nothing is sent while the archive is still being decoded.
C11_NoBaseSkipsReconciliation ==
  /\ contentIDBase = NoBase =>
        /\ rec \in {"idle", "done"}
        /\ toDelete = {}
        /\ deletionCount = 0
        /\ \A i \in Reports : sent[i].body.deleted = 0
        /\ decode = "finished" => (rec = "done" /\ Reports # {}) \/ drainArmed
  /\ envelopeCount = Cardinality(FinishedWith("ok"))
  /\ failureCount = nMalformed + Cardinality(FinishedWith("fail"))
  /\ decode = "reading" => sent = <<>> /\ nextCalls = <<>>

\* C11 witness: three entries of which one is a record, no contentIDBase
\* captured, stored IDs outside the batch are still there and the report
\* says accepted 1, deleted 0.
C11_Witness ==
  /\ contentIDBase = NoBase
  /\ nEntries = 3 /\ nRecords = 1
  /\ rec = "done"
  /\ {Xa, Xb, Xc, Yd} \subseteq stored
  /\ \E i \in Reports : sent[i].body.accepted = 1 /\ sent[i].body.deleted = 0

C13_NoReportAfterFatal ==
  (\E i \in 1..Len(nextCalls) : nextCalls[i] = "err") => Reports = {}

\* C16: the outcome of a task is reported (its counter incremented, its
\* worker slot released) only when both of its writes have called back.
C16_OutcomeAfterBothWrites ==
  \A f \in finished : \A l \in late : l.tid # f.tid

\* C17: the queue never runs more than Concurrency tasks at once, starts the
\* tasks in the order of their submission, and a task that failed has
\* released its slot: no task waits without a pending process() or a full
\* pool, and an idle queue has run every submitted task.
C17_BoundedFifoQueue ==
  /\ running <= Concurrency
  /\ \A i, j \in 1..Len(tasks) : i < j => tasks[i].tid < tasks[j].tid
  /\ \A i \in 1..Len(tasks) :
        /\ \A w \in workers : w.tid < tasks[i].tid
        /\ \A f \in finished : f.tid < tasks[i].tid
  /\ (tasks # <<>> => processScheduled \/ running = Concurrency)
  /\ (QueueIdle => Cardinality(finished) = nRecords - nMalformed)

\* C17 witness: the first task failed and released its slot, the second
\* and the third task run in the two slots.
C17_Witness ==
  /\ finished = {[tid |-> 1, outcome |-> "fail"]}
  /\ running = Concurrency
  /\ {w.tid : w \in workers} = {2, 3}
  /\ tasks = <<>>

\* C14: when the same archive is uploaded twice in sequence and both
\* uploads are answered with a completion report, the two reports carry the
\* same {accepted, failed, deleted}.
C14_SameTripleTwice ==
  run = 2 =>
    \A i \in 1..Len(firstSent), j \in Reports :
      firstSent[i].body.kind = "report" => firstSent[i].body = sent[j].body

\* C22: a request whose reconciliation is over, or was skipped, has sent a
\* completion report whose deleted value is the size of toDelete as computed
\* from the listing, and the IDs of toDelete are gone from both stores; the
\* value is 0 when reconciliation was skipped.
C22_DeletedIsRemoved ==
  /\ \A i \in Reports :
        /\ sent[i].body.deleted = Cardinality(toDelete)
        /\ contentIDBase = NoBase => sent[i].body.deleted = 0
  /\ rec \in {"done", "threw"} =>
        /\ \E i \in Reports : sent[i].body.deleted = Cardinality(toDelete)
        /\ deletionCount = Cardinality(toDelete)
        /\ toDelete \cap (stored \cup indexed) = {}

-----------------------------------------------------------------------------
(* Properties of the index rotation *)

PassedLatch == {p \in Procs : indexName[p] # 0}

AllDone == \A p \in Procs : spc[p] = "done"

\* C3: of N concurrent setup invocations against a search engine without the
\* latch, at most one passes the latch; every invocation that finds the latch
\* calls back once, without error, and creates no generation and changes no
\* alias; and when no backend request fails, exactly one invocation creates
\* a generation and issues the alias promotion.
C3_OneRotation ==
  /\ Cardinality(PassedLatch) <= 1
  /\ creators \cup promoters \subseteq PassedLatch
  /\ \A p \in got400 : /\ cbs[p] = <<"ok">>
                       /\ spc[p] = "done"
                       /\ p \notin PassedLatch
  /\ (AllDone /\ faulty = {}) =>
        /\ Cardinality(creators) = 1
        /\ promoters = creators
        /\ got400 = Procs \ creators
        /\ \A p \in Procs : cbs[p] = <<"ok">>

\* C3 witness: every invocation is over without a fault, one has promoted
\* its generation over two older ones and another one found the latch.
C3_Witness ==
  /\ AllDone
  /\ faulty = {}
  /\ got400 # {}
  /\ \E p \in promoters : alias = {indexName[p]} /\ indices = {indexName[p]}
  /\ clock > 3

\* C4: no state shows two generations holding the alias envelopes_current,
\* and once a promotion has succeeded every state, during and after the
\* deletion of the old generations too, shows exactly one that holds it.
C4_OneActiveGeneration ==
  /\ Cardinality(alias) <= 1
  /\ alias \subseteq indices
  /\ (promoters # {} => Cardinality(alias) = 1)

\* C4 witness: in the middle of garbage collection, one old generation
\* deleted and one still there, the new generation holds the alias.
C4_Witness ==
  \E p \in promoters :
    /\ spc[p] = "gc"
    /\ Cardinality(toGC[p]) = 1
    /\ Cardinality(indices) = 2
    /\ alias = {indexName[p]}

\* C18: after a rotation called back successfully every generation but the
\* promoted one is deleted, and a promoted generation is never among the
\* deletions: it still exists and still holds the alias.
C18_OnlyPromotedSurvives ==
  \A p \in promoters :
    /\ indexName[p] \in indices
    /\ indexName[p] \notin removed
    /\ indexName[p] \notin toGC[p]
    /\ alias = {indexName[p]}
    /\ cbs[p] = <<"ok">> => /\ spc[p] = "done"
                            /\ indices = {indexName[p]}

\* C18 witness: a rotation called back successfully after both older
\* generations were deleted.
C18_Witness ==
  \E p \in promoters :
    /\ cbs[p] = <<"ok">>
    /\ removed = {1, 2}
    /\ indices = {indexName[p]}

\* C19: a failing step ends the rotation with one error passed to the
\* callback: after a failed create or mapping no alias update was applied,
\* after a failed alias update or listing nothing was deleted, a failure
\* before the promotion leaves the alias as it was before the call, and no
\* callback is invoked twice.
C19_FailureAborts ==
  \A p \in Procs :
    /\ Len(cbs[p]) <= 1
    /\ failedAt[p] # "none" => cbs[p] = <<"err">>
    /\ failedAt[p] \in {"connect", "latch", "create", "mapping", "promote", "get"} =>
          /\ spc[p] = "done"
          /\ toGC[p] = {}
    /\ failedAt[p] \in {"connect", "latch"} => p \notin PassedLatch
    /\ failedAt[p] \in {"connect", "latch", "create"} => p \notin creators
    /\ failedAt[p] \in {"connect", "latch", "create", "mapping", "promote"} =>
          p \notin promoters
    /\ failedAt[p] \in {"create", "mapping", "promote"} => alias = aliasBefore
    /\ failedAt[p] \in {"create", "mapping", "promote", "get"} => removed = {}
    /\ failedAt[p] = "gc" => p \in promoters

\* C19 witness: the alias update failed after the new generation was
\* created next to two older ones; the older one still holds the alias.
C19_Witness ==
  \E p \in creators :
    /\ failedAt[p] = "promote"
    /\ cbs[p] = <<"err">>
    /\ Cardinality(indices) = 3
    /\ alias = {2}

\* C21: no step removes the latch; an invocation that asks for the latch
\* when it exists returns without a generation name, and that step changes
\* neither the generations nor the alias; so when the invocation that passed
\* the latch failed while creating or promoting its generation, nothing was
\* promoted and the alias is the one from before.
C21_LatchIsNeverReleased ==
  /\ [](\A p \in PassedLatch :
          failedAt[p] \in {"create", "mapping", "promote"} =>
             /\ promoters = {}
             /\ alias = aliasBefore
             /\ \A q \in Procs \ {p} : indexName[q] = 0)
  /\ [][/\ latch => latch'
        /\ \A p \in Procs :
             (latch /\ spc[p] = "latch" /\ spc'[p] # "latch") =>
                /\ spc'[p] = "done"
                /\ indexName'[p] = 0
                /\ indices' = indices
                /\ alias' = alias]_vars

\* C21 witness: the invocation that passed the latch failed at the alias
\* update, the other invocation found the latch afterwards and returned;
\* every invocation is over and no generation holds the alias.
C21_Witness ==
  /\ AllDone
  /\ latch
  /\ \E p \in PassedLatch : failedAt[p] = "promote"
  /\ \E q \in got400 : cbs[q] = <<"ok">>
  /\ alias = {}
  /\ promoters = {}

-----------------------------------------------------------------------------
(* Properties of the deletes *)

\* C15: a delete that the backend answers with not-found calls back without
\* an error and changes nothing, in the document store and in the search
\* index alike; so once an ID was deleted, every later delete of it that
\* the backend answers succeeds again and leaves the store as it is.
C15_DeleteIsIdempotent ==
  /\ \A i \in 1..Len(delLog) :
        delLog[i].err \in {CloudNotFound, SearchNotFound} =>
           delLog[i].result = Null /\ delLog[i].unchanged
  /\ \A i, j \in 1..Len(delLog) :
        (/\ i < j
         /\ delLog[i].op = delLog[j].op
         /\ delLog[i].id = delLog[j].id
         /\ delLog[i].result = Null
         /\ delLog[j].err \notin {CloudFailure, SearchFailure}) =>
           delLog[j].result = Null /\ delLog[j].unchanged

\* C15 witness: an object that was there is deleted twice; the second
\* delete is answered not-found and calls back without an error.
C15_Witness ==
  /\ Len(delLog) >= 2
  /\ delLog[1] = DeleteCall("deleteContent", Xa, Null, Null, FALSE)
  /\ delLog[2] = DeleteCall("deleteContent", Xa, CloudNotFound, Null, TRUE)

-----------------------------------------------------------------------------
(* Properties of removeStagingEnvelopes *)

\* C20: for a non-empty list removeStagingEnvelopes issues one operation on
\* the document store and one on the search index, each covering exactly the
\* IDs of the list, single-item operations for a list of one and bulk
\* operations otherwise; for the empty list it issues none and calls back
\* with success; it calls back exactly once, and after a callback without
\* error none of the IDs is stored or indexed.
C20_SingleAndBulkAgree ==
  /\ (rmPc # "start" /\ rmIDs # <<>>) =>
        /\ Cardinality(rmOps) = 2
        /\ {o.store : o \in rmOps} = {"kv", "fts"}
        /\ \A o \in rmOps :
              /\ o.ids = Range(rmIDs)
              /\ o.form = "single" <=> Len(rmIDs) = 1
  /\ rmIDs = <<>> =>
        /\ rmOps = {}
        /\ rmPending = {}
        /\ rmPc = "done" => rmCb = <<"ok">>
  /\ Len(rmCb) <= 1
  /\ rmPc = "done" => Len(rmCb) = 1 /\ rmPending = {}
  /\ rmCb = <<"ok">> =>
        /\ rmPending = {}
        /\ Range(rmIDs) \cap (stored \cup indexed) = {}

\* C20 witness: a list of two IDs that were stored and indexed has been
\* removed by the two bulk operations and the callback got no error.
C20_Witness ==
  /\ Len(rmIDs) = 2
  /\ rmCb = <<"ok">>
  /\ \A o \in rmOps : o.form = "bulk"
  /\ stored = {Xa, Xb, Xc, Yd} \ Range(rmIDs)
  /\ indexed = stored

-----------------------------------------------------------------------------
(* Properties of the listing *)

Occurrences(seq, x) == Cardinality({i \in 1..Len(seq) : seq[i] = x})

\* C10: a marker based listing with page size perPage hands every stored
\* item to the consumer exactly once, signals completion exactly once, stops
\* fetching after the first page shorter than perPage, and for exactly
\* perPage stored items ends after exactly two page fetches.
C10_EveryItemOnce ==
  lpc = "done" =>
    /\ \A id \in container : Occurrences(delivered, id) = 1
    /\ Len(delivered) = Cardinality(container)
    /\ completions = 1
    /\ fetches = (Cardinality(container) \div perPage) + 1
    /\ (Cardinality(container) = perPage => fetches = 2)

====
